---------------------------- MODULE Spec2Model ----------------------------
(***************************************************************************)
(* Miniature World Generator: the two-stage pipeline of App.handleGenerate *)
(* (src/App.tsx) over engineerPrompt and generatePosterImage               *)
(* (src/services/geminiService.ts), with the submit guard of InputSection  *)
(* (src/components/InputSection.tsx).                                      *)
(*                                                                         *)
(* A run of handleGenerate is an async function: it executes atomically    *)
(* from one await to the next.  Each action below is one such segment: the *)
(* resolution (or rejection) of the promise the run awaits, followed by    *)
(* all the synchronous code up to the next await or to the return.         *)
(***************************************************************************)
EXTENDS Integers, Sequences, FiniteSets, TLC

(***************************************************************************)
(* JavaScript values.  null and undefined are sentinels that no string of  *)
(* the program equals.                                                     *)
(***************************************************************************)
Null == "<null>"
Undefined == "<undefined>"
NullData == [k |-> "null"]

\* AppStatus (src/types.ts)
IDLE == "IDLE"
ANALYZING == "ANALYZING"
GENERATING_IMAGE == "GENERATING_IMAGE"
SUCCESS == "SUCCESS"
ERROR == "ERROR"
AppStatus == {IDLE, ANALYZING, GENERATING_IMAGE, SUCCESS, ERROR}

(***************************************************************************)
(* String helpers, with JavaScript's meaning (0-based indices).            *)
(***************************************************************************)
At(s, i) == SubSeq(s, i + 1, i + 1)

\* String.prototype.includes
Includes(s, sub) ==
    \E i \in 0..(Len(s) - Len(sub)) : SubSeq(s, i + 1, i + Len(sub)) = sub

\* String.prototype.indexOf, for a one-character needle: -1 when absent
IndexOf(s, c) ==
    IF \E i \in 0..(Len(s) - 1) : At(s, i) = c
    THEN CHOOSE i \in 0..(Len(s) - 1) :
            At(s, i) = c /\ \A j \in 0..(i - 1) : At(s, j) # c
    ELSE -1

\* String.prototype.lastIndexOf, for a one-character needle
LastIndexOf(s, c) ==
    IF \E i \in 0..(Len(s) - 1) : At(s, i) = c
    THEN CHOOSE i \in 0..(Len(s) - 1) :
            At(s, i) = c /\ \A j \in (i + 1)..(Len(s) - 1) : At(s, j) # c
    ELSE -1

Clamp(n, len) == IF n < 0 THEN 0 ELSE IF n > len THEN len ELSE n

\* String.prototype.substring(a, b): clamps both, swaps them when a > b
JsSubstring(s, a, b) ==
    LET x == Clamp(a, Len(s))
        y == Clamp(b, Len(s))
        lo == IF x < y THEN x ELSE y
        hi == IF x < y THEN y ELSE x
    IN SubSeq(s, lo + 1, hi)

IsSpace(c) == c \in {" ", "\n", "\t", "\r"}

\* String.prototype.trim
RECURSIVE TrimLeft(_)
TrimLeft(s) ==
    IF Len(s) > 0 /\ IsSpace(At(s, 0)) THEN TrimLeft(SubSeq(s, 2, Len(s))) ELSE s

RECURSIVE TrimRight(_)
TrimRight(s) ==
    IF Len(s) > 0 /\ IsSpace(At(s, Len(s) - 1))
    THEN TrimRight(SubSeq(s, 1, Len(s) - 1))
    ELSE s

Trim(s) == TrimRight(TrimLeft(s))


(***************************************************************************)
(* JSON.parse, for the JSON texts the model's responses carry: an object   *)
(* of string keys with scalar values (strings without escapes, unsigned    *)
(* integers, null), or a scalar alone, with optional white space.  A       *)
(* parse result is [ok, val, next]; next is the index after the value.     *)
(***************************************************************************)
ParseFail == [ok |-> FALSE, val |-> NullData, next |-> 0]

IsDigit(c) == c \in {"0", "1", "2", "3", "4", "5", "6", "7", "8", "9"}

RECURSIVE SkipWs(_, _)
SkipWs(s, i) == IF i < Len(s) /\ IsSpace(At(s, i)) THEN SkipWs(s, i + 1) ELSE i

RECURSIVE DigitsEnd(_, _)
DigitsEnd(s, i) == IF i < Len(s) /\ IsDigit(At(s, i)) THEN DigitsEnd(s, i + 1) ELSE i

\* a string literal starting at the quote at index i
ParseString(s, i) ==
    LET rest == SubSeq(s, i + 2, Len(s))
        j == IndexOf(rest, "\"")
    IN IF i >= Len(s) \/ At(s, i) # "\"" \/ j < 0
       THEN ParseFail
       ELSE [ok |-> TRUE,
             val |-> [k |-> "str", v |-> SubSeq(rest, 1, j)],
             next |-> i + 1 + j + 1]

ParseScalar(s, i) ==
    IF i >= Len(s) THEN ParseFail
    ELSE IF At(s, i) = "\"" THEN ParseString(s, i)
    ELSE IF IsDigit(At(s, i))
         THEN [ok |-> TRUE,
               val |-> [k |-> "num", v |-> SubSeq(s, i + 1, DigitsEnd(s, i))],
               next |-> DigitsEnd(s, i)]
    ELSE IF SubSeq(s, i + 1, i + 4) = "null"
         THEN [ok |-> TRUE, val |-> NullData, next |-> i + 4]
    ELSE ParseFail

\* the members of an object from index i on; acc maps the keys read so far
RECURSIVE ParseMembers(_, _, _)
ParseMembers(s, i, acc) ==
    LET key == ParseString(s, i)
        colon == SkipWs(s, key.next)
        value == ParseScalar(s, SkipWs(s, colon + 1))
        after == SkipWs(s, value.next)
        acc2 == (key.val.v :> value.val) @@ acc
    IN IF ~key.ok \/ colon >= Len(s) \/ At(s, colon) # ":" THEN ParseFail
       ELSE IF ~value.ok \/ after >= Len(s) THEN ParseFail
       ELSE IF At(s, after) = "}"
            THEN [ok |-> TRUE, val |-> [k |-> "obj", f |-> acc2], next |-> after + 1]
       ELSE IF At(s, after) = ","
            THEN ParseMembers(s, SkipWs(s, after + 1), acc2)
       ELSE ParseFail

NoFields == [x \in {} |-> NullData]

ParseValue(s, i) ==
    IF i < Len(s) /\ At(s, i) = "{"
    THEN LET j == SkipWs(s, i + 1)
         IN IF j < Len(s) /\ At(s, j) = "}"
            THEN [ok |-> TRUE, val |-> [k |-> "obj", f |-> NoFields], next |-> j + 1]
            ELSE ParseMembers(s, j, NoFields)
    ELSE ParseScalar(s, i)

\* JSON.parse(s): the whole text must be one value
JSONParse(s) ==
    LET r == ParseValue(s, SkipWs(s, 0))
    IN IF r.ok /\ SkipWs(s, r.next) = Len(s) THEN r ELSE ParseFail

\* obj.name on a parsed value: the field's JavaScript value as the model
\* carries it (a string; Null; Undefined when absent)
Field(val, name) ==
    IF val.k # "obj" \/ name \notin DOMAIN val.f THEN Undefined
    ELSE IF val.f[name].k = "str" THEN val.f[name].v
    ELSE IF val.f[name].k = "null" THEN Null
    ELSE "<number " \o val.f[name].v \o ">"

\* JavaScript truthiness of a parsed value
Truthy(val) ==
    CASE val.k = "null" -> FALSE
      [] val.k = "str" -> val.v # ""
      [] val.k = "num" -> \E i \in 1..Len(val.v) : SubSeq(val.v, i, i) # "0"
      [] OTHER -> TRUE

(***************************************************************************)
(* Outcomes of a stage: a value returned or an Error thrown.               *)
(***************************************************************************)
Return(v) == [ok |-> TRUE, val |-> v, msg |-> ""]
Throw(m) == [ok |-> FALSE, val |-> NullData, msg |-> m]

(***************************************************************************)
(* Stage 1, engineerPrompt, after the retry loop has a response.           *)
(* A response is [text, candidates]: text is response.text ("" when the    *)
(* response has none) and candidates a sequence of                         *)
(* [finishReason, hasChunks, chunks]; a grounding chunk is                 *)
(* [hasWeb, title, uri].                                                   *)
(***************************************************************************)
EmptyResponseMsg ==
    "The AI returned an empty response. Please try again with a different prompt or image."
MalformedOutputMsg == "Failed to parse generated prompt."
\* `AI generation stopped: ${candidate.finishReason}`
ReasonText(reason) == IF reason = Undefined THEN "undefined" ELSE reason
GenerationStoppedMsg(reason) == "AI generation stopped: " \o ReasonText(reason)

\* a variant that parses the trimmed text as it is
ExtractJson_NoSlice(text) == Trim(text)

\* if (jsonString.includes('{')) jsonString = jsonString.substring(first '{', last '}' + 1)
ExtractJson(text) ==
    LET jsonString == Trim(text)
    IN IF Includes(jsonString, "{")
       THEN JsSubstring(jsonString, IndexOf(jsonString, "{"),
                        LastIndexOf(jsonString, "}") + 1)
       ELSE jsonString

\* a variant that keeps the chunks in reverse order
RECURSIVE GroundingSources_Reversed(_)
GroundingSources_Reversed(chunks) ==
    IF chunks = <<>> THEN <<>>
    ELSE GroundingSources_Reversed(Tail(chunks))
         \o (IF Head(chunks).hasWeb
             THEN <<[title |-> Head(chunks).title, uri |-> Head(chunks).uri]>>
             ELSE <<>>)

\* chunks.map(c => c.web).filter(w => w).map(w => ({title, uri}))
RECURSIVE GroundingSources(_)
GroundingSources(chunks) ==
    IF chunks = <<>> THEN <<>>
    ELSE (IF Head(chunks).hasWeb
          THEN <<[title |-> Head(chunks).title, uri |-> Head(chunks).uri]>>
          ELSE <<>>) \o GroundingSources(Tail(chunks))

\* response.candidates?.[0]?.groundingMetadata?.groundingChunks is present
HasChunks(resp) == Len(resp.candidates) > 0 /\ resp.candidates[1].hasChunks

\* the EngineeredPrompt the orchestrator holds: the parsed object's three
\* fields and, when chunks were present, the sources attached to it
EngineeredData(val, resp) ==
    [k |-> "obj",
     posterTitle |-> Field(val, "posterTitle"),
     posterSubtitle |-> Field(val, "posterSubtitle"),
     visualPrompt |-> Field(val, "visualPrompt"),
     hasSources |-> HasChunks(resp),
     groundingSources |->
        IF HasChunks(resp) THEN GroundingSources(resp.candidates[1].chunks) ELSE <<>>]

\* a variant that stops on an abnormal finish reason whether or not there is text
Stage1Stopped_AnyText(resp) ==
    /\ Len(resp.candidates) > 0
    /\ resp.candidates[1].finishReason \notin {"STOP", "MAX_TOKENS"}

\* lines 145-153: the first candidate's finish reason is neither STOP nor
\* MAX_TOKENS, and the response has no text
Stage1Stopped(resp) ==
    /\ Len(resp.candidates) > 0
    /\ resp.candidates[1].finishReason \notin {"STOP", "MAX_TOKENS"}
    /\ resp.text = ""

\* a variant that goes on to the extraction with an empty text
ReachesExtraction_EmptyText(resp) == ~Stage1Stopped(resp)

\* lines 145-160: neither check throws, and the text goes to the extraction
ReachesExtraction(resp) == ~Stage1Stopped(resp) /\ resp.text # ""

\* a variant that puts the raw text into the parse error
EngineerResult_RawText(resp) ==
    LET parsed == JSONParse(ExtractJson(resp.text))
    IN IF Stage1Stopped(resp)
       THEN Throw(GenerationStoppedMsg(resp.candidates[1].finishReason))
       ELSE IF ~ReachesExtraction(resp) THEN Throw(EmptyResponseMsg)
       ELSE IF ~parsed.ok THEN Throw("Failed to parse: " \o resp.text)
       ELSE IF parsed.val.k = "obj" THEN Return(EngineeredData(parsed.val, resp))
       \* data.groundingSources = ... on a value that is no object
       ELSE IF HasChunks(resp) /\ parsed.val.k = "null"
            THEN Throw("Cannot set properties of null (setting 'groundingSources')")
       ELSE IF HasChunks(resp)
            THEN Throw("Cannot create property 'groundingSources' on "
                       \o (IF parsed.val.k = "num" THEN "number" ELSE "string")
                       \o " '" \o parsed.val.v \o "'")
       ELSE Return(parsed.val)

\* lines 141-180: what engineerPrompt makes of a response
EngineerResult(resp) ==
    LET parsed == JSONParse(ExtractJson(resp.text))
    IN IF Stage1Stopped(resp)
       THEN Throw(GenerationStoppedMsg(resp.candidates[1].finishReason))
       ELSE IF ~ReachesExtraction(resp) THEN Throw(EmptyResponseMsg)
       ELSE IF ~parsed.ok THEN Throw(MalformedOutputMsg)
       ELSE IF parsed.val.k = "obj" THEN Return(EngineeredData(parsed.val, resp))
       \* data.groundingSources = ... on a value that is no object
       ELSE IF HasChunks(resp) /\ parsed.val.k = "null"
            THEN Throw("Cannot set properties of null (setting 'groundingSources')")
       ELSE IF HasChunks(resp)
            THEN Throw("Cannot create property 'groundingSources' on "
                       \o (IF parsed.val.k = "num" THEN "number" ELSE "string")
                       \o " '" \o parsed.val.v \o "'")
       ELSE Return(parsed.val)

(***************************************************************************)
(* Stage 2, generatePosterImage, after the retry loop has a response.      *)
(* A response is [hasCandidates, candidates]; a candidate is               *)
(* [hasContent, hasParts, parts]; a part is [hasInline, mimeType, data].   *)
(***************************************************************************)
NoImageGeneratedMsg == "No image generated"
NoImageDataMsg == "No image data found"

\* `data:${mimeType};base64,${data}`
EncodeDataUrl(mimeType, data) == "data:" \o mimeType \o ";base64," \o data

\* a variant that takes the last part with inline data
FindInline_Last(parts) ==
    IF \E i \in 1..Len(parts) : parts[i].hasInline
    THEN CHOOSE i \in 1..Len(parts) :
            parts[i].hasInline /\ \A j \in (i + 1)..Len(parts) : ~parts[j].hasInline
    ELSE 0

\* parts.find(p => p.inlineData): the index of the first such part, 0 if none
FindInline(parts) ==
    IF \E i \in 1..Len(parts) : parts[i].hasInline
    THEN CHOOSE i \in 1..Len(parts) :
            parts[i].hasInline /\ \A j \in 1..(i - 1) : ~parts[j].hasInline
    ELSE 0

PosterResult(resp) ==
    IF ~resp.hasCandidates THEN Throw(NoImageGeneratedMsg)
    \* response.candidates[0].content.parts on an empty list, or without content
    ELSE IF Len(resp.candidates) = 0
         THEN Throw("Cannot read properties of undefined (reading 'content')")
    ELSE IF ~resp.candidates[1].hasContent
         THEN Throw("Cannot read properties of undefined (reading 'parts')")
    ELSE IF ~resp.candidates[1].hasParts THEN Throw(NoImageGeneratedMsg)
    ELSE LET parts == resp.candidates[1].parts
             i == FindInline(parts)
         IN IF i = 0 THEN Throw(NoImageDataMsg)
            ELSE Return(EncodeDataUrl(parts[i].mimeType, parts[i].data))

(***************************************************************************)
(* The orchestrator's catch block (App.tsx 79-92).                         *)
(***************************************************************************)
UnexpectedMsg == "An unexpected error occurred."
PermissionDeniedMsg == "Permission Denied. Please select a valid paid API key."
PromptMissingMsg == "Prompt data is missing."

\* a variant that labels the message
CatchMessage_Labelled(errMessage) == "Error: " \o errMessage

\* const message = err.message || "An unexpected error occurred."
CatchMessage(errMessage) == IF errMessage = "" THEN UnexpectedMsg ELSE errMessage

\* a variant that looks for "403" only
IsPermissionError_Only403(message) == Includes(message, "403")

\* message.includes("403") || message.includes("permission")
IsPermissionError(message) == Includes(message, "403") \/ Includes(message, "permission")

(***************************************************************************)
(* The requests of the two stages: the parts built before the retry loop.  *)
(***************************************************************************)
\* the characters the regular expression's `.` does not match
IsLineTerminator(c) == c \in {"\n", "\r"}

HasLineTerminator(s) == \E i \in 1..Len(s) : IsLineTerminator(SubSeq(s, i, i))

\* the positions at which /^data:(.+);base64,(.+)$/ can split s: the start
\* of a ";base64," with a non-empty group before and after it
SplitPoints(s) ==
    {i \in 7..(Len(s) - 8) : SubSeq(s, i, i + 7) = ";base64,"}

\* s.match(/^data:(.+);base64,(.+)$/) is not null
MatchesDataUrl(s) ==
    /\ Len(s) >= 5
    /\ SubSeq(s, 1, 5) = "data:"
    /\ ~HasLineTerminator(s)
    /\ SplitPoints(s) # {}

\* s.split(',')[1]: what lies between the first comma and the second (or the
\* end); undefined without a comma
SplitComma1(s) ==
    LET first == IndexOf(s, ",")
        rest == SubSeq(s, first + 2, Len(s))
        second == IndexOf(rest, ",")
    IN IF first < 0 THEN Undefined
       ELSE IF second < 0 THEN rest
       ELSE SubSeq(rest, 1, second)

\* lines 86-88 and 228-230: mimeType and data of a non-empty image string;
\* the first group of the expression is greedy
DecodeDataUrl(s) ==
    IF MatchesDataUrl(s)
    THEN LET i == CHOOSE p \in SplitPoints(s) : \A q \in SplitPoints(s) : q <= p
         IN [mimeType |-> SubSeq(s, 6, i - 1), data |-> SubSeq(s, i + 8, Len(s))]
    ELSE [mimeType |-> "image/jpeg", data |-> SplitComma1(s)]

\* if (imageBase64) parts.push({ inlineData: { mimeType, data } })
InlineParts(image) ==
    IF image \in {Null, ""} THEN <<>>
    ELSE <<[k |-> "inlineData", mimeType |-> DecodeDataUrl(image).mimeType,
            data |-> DecodeDataUrl(image).data]>>

UpperCase == "ABCDEFGHIJKLMNOPQRSTUVWXYZ"
LowerCase == "abcdefghijklmnopqrstuvwxyz"

LowerChar(c) ==
    IF \E i \in 1..26 : SubSeq(UpperCase, i, i) = c
    THEN LET i == CHOOSE j \in 1..26 : SubSeq(UpperCase, j, j) = c
         IN SubSeq(LowerCase, i, i)
    ELSE c

\* inputText.toLowerCase(), for texts in ASCII
RECURSIVE ToLowerCase(_)
ToLowerCase(s) ==
    IF s = "" THEN "" ELSE LowerChar(SubSeq(s, 1, 1)) \o ToLowerCase(SubSeq(s, 2, Len(s)))

DataKeywords == {"stock", "price", "weather", "news", "score"}

\* a variant that compares the text as typed
NeedsSearch_CaseSensitive(inputText) ==
    inputText # "" /\ \E kw \in DataKeywords : Includes(inputText, kw)

\* inputText && dataKeywords.some(kw => inputText.toLowerCase().includes(kw))
NeedsSearch(inputText) ==
    inputText # "" /\ \E kw \in DataKeywords : Includes(ToLowerCase(inputText), kw)

SearchInstruction == "INSTRUCTION: USE GOOGLE SEARCH to find the current live data value."

\* lines 96-103
FinalInputText(inputText) ==
    IF NeedsSearch(inputText)
    THEN "User Query: \"" \o inputText \o "\". \n" \o SearchInstruction
    ELSE inputText

\* navigator.language
UserLocale == "en-US"

\* lines 106-115
ContextMessage(inputText, image) ==
    "\n    [METADATA FOR LANGUAGE LOGIC]\n"
    \o "    1. User Input Text: \"" \o FinalInputText(inputText)
    \o "\" (If not empty, this is PRIORITY 1)\n"
    \o "    2. Reference Image Provided: "
    \o (IF image \in {Null, ""} THEN "NO" ELSE "YES")
    \o " (If Input is empty, check this for text -> PRIORITY 2)\n"
    \o "    3. User System Locale: \"" \o UserLocale \o "\" (Fallback -> PRIORITY 3)\n"
    \o "    \n    [TASK]\n"
    \o "    Determine the Target Language based on the Priority Rules.\n"
    \o "    Create a 3D Miniature Isometric Poster concept.\n    "

\* the parts engineerPrompt sends (lines 84-117)
EngineerParts(inputText, image) ==
    InlineParts(image) \o <<[k |-> "text", text |-> ContextMessage(inputText, image)]>>

\* the parts generatePosterImage sends (lines 200-257); the text part is
\* carried by the mode of its template and the visual description it embeds
PosterParts(visualPrompt, image) ==
    InlineParts(image)
    \o <<[k |-> "text",
          mode |-> IF image \in {Null, ""} THEN "GENERATION MODE" ELSE "IMAGE REFERENCE MODE",
          visualDescription |-> IF visualPrompt = Undefined THEN "undefined"
                                ELSE visualPrompt]>>

(***************************************************************************)
(* Inputs and the remote service's answers, drawn from small sets.         *)
(***************************************************************************)
\* the retry loops: while (attempts < 3), setTimeout(r, base * attempts)
MaxAttempts1 == 3
BaseDelay1 == 1000
MaxAttempts2 == 3
BaseDelay2 == 2000

\* the number of handleGenerate runs that may be in flight together
MaxConc == 2
\* the number of submissions of a session in which runs may overlap
MaxRuns == 2

Slots == 1..MaxConc

Texts == {"", "A"}
Images == {Null, "data:image/png;base64,AAAA"}
\* the settings of the two selects, as <<aspectRatio, imageSize>>
Settings == {<<"9:16", "1K">>, <<"1:1", "4K">>}

\* UserInput (src/types.ts); the File handle `image` plays no part in the pipeline
UserInputs ==
    {[text |-> t, imageBase64 |-> i, aspectRatio |-> s[1], imageSize |-> s[2],
      forceAnalysis |-> f] : t \in Texts, i \in Images, s \in Settings, f \in BOOLEAN}

\* texts with and without the live-data keywords, in either case
RequestTexts ==
    {"", "A", "What's the weather in Tokyo", "STOCK tips", "Latest News",
     "sco re", "Prices", "Weath"}

\* image strings: data URLs, one with a second ";base64,", one whose payload
\* has a line break, one without MIME type, and strings that are no data URL,
\* with no comma, one comma and two commas
RequestImages ==
    {Null, "", "data:image/png;base64,AAAA", "data:a;base64,b;base64,c",
     "data:image/png;base64,AA\nBB", "data:image/png;base64,AA,BB",
     "data:;base64,AA", "AAAA", "image/png,AAAA", "a,b,c"}

RequestInputs ==
    {[text |-> t, imageBase64 |-> i, aspectRatio |-> "1:1", imageSize |-> "1K",
      forceAnalysis |-> FALSE] : t \in RequestTexts, i \in RequestImages}

\* messages of the errors a remote call may reject with ("": an error without message)
RemoteErrors ==
    {"Request failed with status 403", "The caller does not have permission",
     "Network error", ""}

StopCandidate == [finishReason |-> "STOP", hasChunks |-> FALSE, chunks |-> <<>>]

\* responses of the reasoning model
Responses1 ==
    {[text |-> "{\"posterTitle\":\"T\",\"posterSubtitle\":\"S\",\"visualPrompt\":\"V1\"}",
      candidates |-> <<StopCandidate>>],
     [text |-> "Here: {\"posterTitle\":\"T\", \"posterSubtitle\":\"S\", \"visualPrompt\":\"V2\"} ok",
      candidates |->
        <<[finishReason |-> "STOP", hasChunks |-> TRUE,
           chunks |-> <<[hasWeb |-> TRUE, title |-> "t1", uri |-> "u1"],
                        [hasWeb |-> FALSE, title |-> "", uri |-> ""]>>]>>],
     [text |-> "{\"posterTitle\":\"T\"}", candidates |-> <<>>],
     [text |-> "null", candidates |-> <<StopCandidate>>],
     [text |-> "no json here", candidates |-> <<StopCandidate>>],
     [text |-> "", candidates |-> <<StopCandidate>>],
     [text |-> "",
      candidates |-> <<[finishReason |-> "SAFETY", hasChunks |-> FALSE, chunks |-> <<>>]>>]}

PngPart == [hasInline |-> TRUE, mimeType |-> "image/png", data |-> "QUJD"]
TextPart == [hasInline |-> FALSE, mimeType |-> "", data |-> ""]

\* responses of the image model
Responses2 ==
    {[hasCandidates |-> TRUE,
      candidates |-> <<[hasContent |-> TRUE, hasParts |-> TRUE,
                        parts |-> <<TextPart, PngPart>>]>>],
     [hasCandidates |-> TRUE,
      candidates |-> <<[hasContent |-> TRUE, hasParts |-> TRUE, parts |-> <<TextPart>>]>>],
     [hasCandidates |-> TRUE,
      candidates |-> <<[hasContent |-> TRUE, hasParts |-> FALSE, parts |-> <<>>]>>],
     [hasCandidates |-> FALSE, candidates |-> <<>>]}

\* prose around the JSON object of a response
Prefixes == {"", "Here is the result: ", "} "}
Suffixes == {"", " Thanks!", " {"}

\* JSON objects of the EngineeredPrompt shape, each with the fields it spells
PromptObjects ==
    {[text |-> "{\"posterTitle\":\"X\",\"posterSubtitle\":\"Y\",\"visualPrompt\":\"Z\"}",
      posterTitle |-> "X", posterSubtitle |-> "Y", visualPrompt |-> "Z"],
     [text |-> "{ \"visualPrompt\" : \"Z 2\",\n  \"posterTitle\":\"X{2\", \"posterSubtitle\":\"\" }",
      posterTitle |-> "X{2", posterSubtitle |-> "", visualPrompt |-> "Z 2"]}

SafetyCandidate == [finishReason |-> "SAFETY", hasChunks |-> FALSE, chunks |-> <<>>]

WrappedResponses ==
    {[text |-> p \o j.text \o s, candidates |-> c] :
        p \in Prefixes, j \in PromptObjects, s \in Suffixes,
        c \in {<<StopCandidate>>, <<SafetyCandidate>>}}

WebChunk(t, u) == [hasWeb |-> TRUE, title |-> t, uri |-> u]
OtherChunk == [hasWeb |-> FALSE, title |-> "", uri |-> ""]

\* grounding chunk lists: with and without web references, none with one,
\* the empty list, the same reference twice
ChunkLists ==
    {<<WebChunk("t2", "u2"), OtherChunk, WebChunk("t1", "u1")>>,
     <<OtherChunk>>,
     <<>>,
     <<WebChunk("t1", "u1"), WebChunk("t2", "u2"), WebChunk("t1", "u1")>>}

\* further responses of the reasoning model: no text at all with each kind of
\* finish reason, white space only, an empty visualPrompt, a number
EdgeResponses1 ==
    {[text |-> "", candidates |-> <<>>],
     [text |-> "",
      candidates |-> <<[finishReason |-> "MAX_TOKENS", hasChunks |-> FALSE, chunks |-> <<>>]>>],
     [text |-> "",
      candidates |-> <<[finishReason |-> Undefined, hasChunks |-> FALSE, chunks |-> <<>>]>>],
     [text |-> "  ", candidates |-> <<StopCandidate>>],
     [text |-> "{\"posterTitle\":\"T\",\"posterSubtitle\":\"S\",\"visualPrompt\":\"\"}",
      candidates |-> <<StopCandidate>>],
     [text |-> "12", candidates |-> <<SafetyCandidate>>],
     \* an opening brace without a closing one after it
     [text |-> "{\"posterTitle\":\"T\"", candidates |-> <<StopCandidate>>],
     [text |-> "x } {\"a\":1", candidates |-> <<StopCandidate>>],
     [text |-> "12 {", candidates |-> <<StopCandidate>>]}
    \cup {[text |-> "{\"posterTitle\":\"T\",\"posterSubtitle\":\"S\",\"visualPrompt\":\"V3\"}",
           candidates |-> <<[finishReason |-> "STOP", hasChunks |-> TRUE, chunks |-> c]>>] :
            c \in ChunkLists}

AllResponses1 == Responses1 \cup WrappedResponses \cup EdgeResponses1

JpegPart == [hasInline |-> TRUE, mimeType |-> "image/jpeg", data |-> "SlBH"]

\* further responses of the image model: an empty candidate list, a candidate
\* without content, an empty part list, two images
EdgeResponses2 ==
    {[hasCandidates |-> TRUE, candidates |-> <<>>],
     [hasCandidates |-> TRUE,
      candidates |-> <<[hasContent |-> FALSE, hasParts |-> FALSE, parts |-> <<>>]>>],
     [hasCandidates |-> TRUE,
      candidates |-> <<[hasContent |-> TRUE, hasParts |-> TRUE, parts |-> <<>>]>>],
     [hasCandidates |-> TRUE,
      candidates |-> <<[hasContent |-> TRUE, hasParts |-> TRUE,
                        parts |-> <<TextPart, JpegPart, PngPart>>]>>],
     [hasCandidates |-> TRUE,
      candidates |-> <<[hasContent |-> TRUE, hasParts |-> TRUE,
                        parts |-> <<PngPart, TextPart, JpegPart>>]>>]}

AllResponses2 == Responses2 \cup EdgeResponses2

\* the two stages' handling of each response of the model, computed once
Stage1Outcome == [resp \in AllResponses1 |-> EngineerResult(resp)]
Stage2Outcome == [resp \in AllResponses2 |-> PosterResult(resp)]

(***************************************************************************)
(* State.                                                                  *)
(***************************************************************************)
VARIABLES
    status,              \* useState<AppStatus>
    promptData,          \* useState<EngineeredPrompt | null>
    resultImage,         \* useState<string | null>
    errorMsg,            \* useState<string | null>
    lastAnalysisParams,  \* useState<{text, imageBase64} | null>
    aistudio,            \* window.aistudio: "present" or "absent"
    run,                 \* the handleGenerate runs: locals, position, history
    lastStage1,          \* history: how the latest engineerPrompt call ended
    nsub                 \* submissions so far, counted where runs may overlap

vars == <<status, promptData, resultImage, errorMsg, lastAnalysisParams,
          aistudio, run, lastStage1, nsub>>

\* the component state a run reads and writes (and the history kept with it)
Globals ==
    [status |-> status, promptData |-> promptData, resultImage |-> resultImage,
     errorMsg |-> errorMsg, lastAnalysisParams |-> lastAnalysisParams,
     lastStage1 |-> lastStage1]

\* no engineerPrompt call has ended yet
NoStage1 == [k |-> "none"]

DefaultInput ==
    [text |-> "A", imageBase64 |-> Null, aspectRatio |-> "1:1", imageSize |-> "1K",
     forceAnalysis |-> FALSE]

NoResponse == [k |-> "none"]

\* a run that has not been started
IdleRun ==
    [pc |-> "idle", input |-> DefaultInput,
     clPromptData |-> NullData, clLastParams |-> NullData,
     currentPromptData |-> NullData, attempts |-> 0,
     \* history of the run
     atSubmit |-> NoStage1,
     hasKeyAnswer |-> "none", gateOpens |-> 0, catchOpens |-> 0,
     engCalls |-> 0, s1Parts |-> <<>>, s1Remote |-> 0, s1Fails |-> 0,
     s1Outcome |-> "none", s1Response |-> NoResponse,
     genCalls |-> <<>>, s2Parts |-> <<>>, s2Remote |-> 0, s2Fails |-> 0, s2Outcome |-> "none",
     s2Response |-> NoResponse,
     lastRejection |-> "", statusLog |-> <<>>, waits |-> <<>>,
     caught |-> FALSE, errMessage |-> ""]

InFlight(r) == run[r].pc \notin {"idle", "done"}

Init ==
    /\ status = IDLE
    /\ promptData = NullData
    /\ resultImage = Null
    /\ errorMsg = Null
    /\ lastAnalysisParams = NullData
    /\ aistudio \in {"present", "absent"}
    /\ run = [r \in Slots |-> IdleRun]
    /\ lastStage1 = NoStage1
    /\ nsub = 0

(***************************************************************************)
(* The segments of handleGenerate.  Each takes the component state g and   *)
(* the run's record l and gives both back as [g, l].                       *)
(***************************************************************************)
SetStatus(l, st) == [l EXCEPT !.statusLog = Append(@, st)]

\* a variant that puts the status back to Idle on an error
CatchBlock_ResetsIdle(g, l, errMessage) ==
    [g |-> [g EXCEPT !.status = IDLE, !.errorMsg = CatchMessage(errMessage)],
     l |-> [SetStatus(l, IDLE) EXCEPT !.caught = TRUE, !.errMessage = errMessage,
                                      !.pc = "done"]]

\* a variant that forgets the structured prompt on an error
CatchBlock_DropsPrompt(g, l, errMessage) ==
    LET message == CatchMessage(errMessage)
        reselect == IsPermissionError(message) /\ aistudio = "present"
        l1 == [SetStatus(l, ERROR) EXCEPT !.caught = TRUE, !.errMessage = errMessage]
    IN [g |-> [g EXCEPT !.status = ERROR, !.promptData = NullData,
                        !.errorMsg = IF reselect THEN PermissionDeniedMsg ELSE message],
        l |-> IF reselect
              THEN [l1 EXCEPT !.pc = "catchOpenKey", !.catchOpens = @ + 1]
              ELSE [l1 EXCEPT !.pc = "done"]]

\* catch (err) { ... } of handleGenerate, lines 79-92, for err.message = errMessage
CatchBlock(g, l, errMessage) ==
    LET message == CatchMessage(errMessage)
        reselect == IsPermissionError(message) /\ aistudio = "present"
        l1 == [SetStatus(l, ERROR) EXCEPT !.caught = TRUE, !.errMessage = errMessage]
    IN [g |-> [g EXCEPT !.status = ERROR,
                        !.errorMsg = IF reselect THEN PermissionDeniedMsg ELSE message],
        l |-> IF reselect
              THEN [l1 EXCEPT !.pc = "catchOpenKey", !.catchOpens = @ + 1]
              ELSE [l1 EXCEPT !.pc = "done"]]

\* a variant that passes no reference image to Stage 2
StartStage2_NoReference(g, l) ==
    IF ~Truthy(l.currentPromptData)
    THEN CatchBlock(g, l, PromptMissingMsg)
    ELSE [g |-> [g EXCEPT !.status = GENERATING_IMAGE],
          l |-> [SetStatus(l, GENERATING_IMAGE) EXCEPT
                    !.pc = "s2_call", !.attempts = 0, !.s2Remote = @ + 1,
                    !.genCalls = Append(@,
                        [visualPrompt |-> IF l.currentPromptData.k = "obj"
                                          THEN l.currentPromptData.visualPrompt
                                          ELSE Undefined,
                         aspectRatio |-> l.input.aspectRatio,
                         imageSize |-> l.input.imageSize,
                         referenceImageBase64 |-> Null]),
                    !.s2Parts = PosterParts(
                        IF l.currentPromptData.k = "obj"
                        THEN l.currentPromptData.visualPrompt ELSE Undefined,
                        Null)]]

\* lines 62-74: the guard on currentPromptData, then the call of
\* generatePosterImage up to its first remote call
StartStage2(g, l) ==
    IF ~Truthy(l.currentPromptData)
    THEN CatchBlock(g, l, PromptMissingMsg)
    ELSE [g |-> [g EXCEPT !.status = GENERATING_IMAGE],
          l |-> [SetStatus(l, GENERATING_IMAGE) EXCEPT
                    !.pc = "s2_call", !.attempts = 0, !.s2Remote = @ + 1,
                    !.genCalls = Append(@,
                        [visualPrompt |-> IF l.currentPromptData.k = "obj"
                                          THEN l.currentPromptData.visualPrompt
                                          ELSE Undefined,
                         aspectRatio |-> l.input.aspectRatio,
                         imageSize |-> l.input.imageSize,
                         referenceImageBase64 |-> l.input.imageBase64]),
                    !.s2Parts = PosterParts(
                        IF l.currentPromptData.k = "obj"
                        THEN l.currentPromptData.visualPrompt ELSE Undefined,
                        l.input.imageBase64)]]

\* lines 42-44 and 49, on the state the handler closed over
InputsChanged(l) ==
    \/ l.clLastParams = NullData
    \/ l.clLastParams.text # l.input.text
    \/ l.clLastParams.imageBase64 # l.input.imageBase64

\* a variant that forgets input.forceAnalysis
NeedsStage1_NoForce(l) == InputsChanged(l) \/ ~Truthy(l.clPromptData)

\* a variant that re-analyses on every submission
NeedsStage1_Always(l) == TRUE

NeedsStage1(l) ==
    l.input.forceAnalysis \/ InputsChanged(l) \/ ~Truthy(l.clPromptData)

\* a variant that leaves the image of the run before on display
AfterKeyCheck_KeepsImage(g, l) ==
    LET g1 == [g EXCEPT !.errorMsg = Null]
    IN IF NeedsStage1(l)
       THEN [g |-> [g1 EXCEPT !.status = ANALYZING, !.promptData = NullData],
             l |-> [SetStatus(l, ANALYZING) EXCEPT
                       !.pc = "s1_call", !.attempts = 0,
                       !.engCalls = @ + 1, !.s1Remote = @ + 1,
                       !.s1Parts = EngineerParts(l.input.text, l.input.imageBase64)]]
       ELSE StartStage2(g1, [l EXCEPT !.currentPromptData = l.clPromptData])

\* a variant that keeps the cached prompt while Stage 1 runs
AfterKeyCheck_KeepsPrompt(g, l) ==
    LET g1 == [g EXCEPT !.errorMsg = Null, !.resultImage = Null]
    IN IF NeedsStage1(l)
       THEN [g |-> [g1 EXCEPT !.status = ANALYZING],
             l |-> [SetStatus(l, ANALYZING) EXCEPT
                       !.pc = "s1_call", !.attempts = 0,
                       !.engCalls = @ + 1, !.s1Remote = @ + 1,
                       !.s1Parts = EngineerParts(l.input.text, l.input.imageBase64)]]
       ELSE StartStage2(g1, [l EXCEPT !.currentPromptData = l.clPromptData])

\* lines 37-55: after checkApiKey, up to the first remote call of the run
AfterKeyCheck(g, l) ==
    LET g1 == [g EXCEPT !.errorMsg = Null, !.resultImage = Null]
    IN IF NeedsStage1(l)
       THEN [g |-> [g1 EXCEPT !.status = ANALYZING, !.promptData = NullData],
             l |-> [SetStatus(l, ANALYZING) EXCEPT
                       !.pc = "s1_call", !.attempts = 0,
                       !.engCalls = @ + 1, !.s1Remote = @ + 1,
                       !.s1Parts = EngineerParts(l.input.text, l.input.imageBase64)]]
       ELSE StartStage2(g1, [l EXCEPT !.currentPromptData = l.clPromptData])

\* a variant that wraps the last failure in an error of its own
Stage1CallFailed_Wraps(g, l, errMessage) ==
    LET n == l.attempts + 1
    IN IF n >= MaxAttempts1
       THEN CatchBlock([g EXCEPT !.lastStage1 = [k |-> "failed"]],
                       [l EXCEPT !.attempts = n, !.s1Fails = @ + 1,
                                 !.s1Outcome = "failed"],
                       "Prompt engineering failed: " \o errMessage)
       ELSE [g |-> g,
             l |-> [l EXCEPT !.attempts = n, !.s1Fails = @ + 1, !.pc = "s1_wait",
                             !.waits = Append(@, BaseDelay1 * n)]]

\* a variant that swallows the last failure and goes on to Stage 2 with the
\* prompt of an earlier run
Stage1CallFailed_GoesOn(g, l, errMessage) ==
    LET n == l.attempts + 1
    IN IF n >= MaxAttempts1
       THEN StartStage2([g EXCEPT !.lastStage1 = [k |-> "failed"]],
                        [l EXCEPT !.attempts = n, !.s1Fails = @ + 1,
                                  !.s1Outcome = "failed",
                                  !.currentPromptData = l.clPromptData])
       ELSE [g |-> g,
             l |-> [l EXCEPT !.attempts = n, !.s1Fails = @ + 1, !.pc = "s1_wait",
                             !.waits = Append(@, BaseDelay1 * n)]]

\* engineerPrompt lines 133-138: a remote call of Stage 1 rejected with errMessage
Stage1CallFailed(g, l, errMessage) ==
    LET n == l.attempts + 1
    IN IF n >= MaxAttempts1
       THEN CatchBlock([g EXCEPT !.lastStage1 = [k |-> "failed"]],
                       [l EXCEPT !.attempts = n, !.s1Fails = @ + 1,
                                 !.s1Outcome = "failed"],
                       errMessage)
       ELSE [g |-> g,
             l |-> [l EXCEPT !.attempts = n, !.s1Fails = @ + 1, !.pc = "s1_wait",
                             !.waits = Append(@, BaseDelay1 * n)]]

\* a variant that goes on with the prompt the handler closed over
Stage1CallReturned_Stale(g, l, resp) ==
    LET res == Stage1Outcome[resp]
    IN IF ~res.ok
       THEN CatchBlock([g EXCEPT !.lastStage1 = [k |-> "failed"]],
                       [l EXCEPT !.s1Outcome = "failed"], res.msg)
       ELSE StartStage2(
               [g EXCEPT !.promptData = res.val,
                         !.lastAnalysisParams =
                            [k |-> "params", text |-> l.input.text,
                             imageBase64 |-> l.input.imageBase64],
                         !.lastStage1 =
                            [k |-> "ok", text |-> l.input.text,
                             imageBase64 |-> l.input.imageBase64, data |-> res.val]],
               [l EXCEPT !.s1Outcome = "ok", !.currentPromptData = l.clPromptData])

\* a variant that leaves the last-analysis record as it was
Stage1CallReturned_KeepsRecord(g, l, resp) ==
    LET res == Stage1Outcome[resp]
    IN IF ~res.ok
       THEN CatchBlock([g EXCEPT !.lastStage1 = [k |-> "failed"]],
                       [l EXCEPT !.s1Outcome = "failed"], res.msg)
       ELSE StartStage2(
               [g EXCEPT !.promptData = res.val,
                         !.lastStage1 =
                            [k |-> "ok", text |-> l.input.text,
                             imageBase64 |-> l.input.imageBase64, data |-> res.val]],
               [l EXCEPT !.s1Outcome = "ok", !.currentPromptData = res.val])

\* engineerPrompt lines 132, 141-180 and App.tsx lines 57-59: a remote call of
\* Stage 1 answered with resp
Stage1CallReturned(g, l, resp) ==
    LET res == Stage1Outcome[resp]
    IN IF ~res.ok
       THEN CatchBlock([g EXCEPT !.lastStage1 = [k |-> "failed"]],
                       [l EXCEPT !.s1Outcome = "failed"], res.msg)
       ELSE StartStage2(
               [g EXCEPT !.promptData = res.val,
                         !.lastAnalysisParams =
                            [k |-> "params", text |-> l.input.text,
                             imageBase64 |-> l.input.imageBase64],
                         !.lastStage1 =
                            [k |-> "ok", text |-> l.input.text,
                             imageBase64 |-> l.input.imageBase64, data |-> res.val]],
               [l EXCEPT !.s1Outcome = "ok", !.currentPromptData = res.val])

\* a variant whose loop gives up one attempt late
Stage2CallFailed_OneMore(g, l, errMessage) ==
    LET n == l.attempts + 1
    IN IF n > MaxAttempts2
       THEN CatchBlock(g, [l EXCEPT !.attempts = n, !.s2Fails = @ + 1,
                                    !.s2Outcome = "failed"], errMessage)
       ELSE [g |-> g,
             l |-> [l EXCEPT !.attempts = n, !.s2Fails = @ + 1, !.pc = "s2_wait",
                             !.waits = Append(@, BaseDelay2 * n)]]

\* a variant that waits the base delay after every failure
Stage2CallFailed_FlatDelay(g, l, errMessage) ==
    LET n == l.attempts + 1
    IN IF n >= MaxAttempts2
       THEN CatchBlock(g, [l EXCEPT !.attempts = n, !.s2Fails = @ + 1,
                                    !.s2Outcome = "failed"], errMessage)
       ELSE [g |-> g,
             l |-> [l EXCEPT !.attempts = n, !.s2Fails = @ + 1, !.pc = "s2_wait",
                             !.waits = Append(@, BaseDelay2)]]

\* generatePosterImage lines 271-276
Stage2CallFailed(g, l, errMessage) ==
    LET n == l.attempts + 1
    IN IF n >= MaxAttempts2
       THEN CatchBlock(g, [l EXCEPT !.attempts = n, !.s2Fails = @ + 1,
                                    !.s2Outcome = "failed"], errMessage)
       ELSE [g |-> g,
             l |-> [l EXCEPT !.attempts = n, !.s2Fails = @ + 1, !.pc = "s2_wait",
                             !.waits = Append(@, BaseDelay2 * n)]]

\* generatePosterImage lines 270, 279-288 and App.tsx lines 76-77
Stage2CallReturned(g, l, resp) ==
    LET res == Stage2Outcome[resp]
    IN IF ~res.ok
       THEN CatchBlock(g, [l EXCEPT !.s2Outcome = "failed"], res.msg)
       ELSE [g |-> [g EXCEPT !.resultImage = res.val, !.status = SUCCESS],
             l |-> [SetStatus(l, SUCCESS) EXCEPT !.s2Outcome = "ok", !.pc = "done"]]

\* handleGenerate called: checkApiKey up to its first await (lines 18-21, 35);
\* without the helper checkApiKey returns at once and the run goes on
StartRun(g, l) ==
    IF aistudio = "present"
    THEN [g |-> g, l |-> [l EXCEPT !.pc = "hasKey"]]
    ELSE AfterKeyCheck(g, l)

\* the new state of the module from a segment's result, for run r
Commit(r, res) ==
    \E out \in {res} :
        /\ status' = out.g.status
        /\ promptData' = out.g.promptData
        /\ resultImage' = out.g.resultImage
        /\ errorMsg' = out.g.errorMsg
        /\ lastAnalysisParams' = out.g.lastAnalysisParams
        /\ lastStage1' = out.g.lastStage1
        /\ run' = [run EXCEPT ![r] = out.l]
        /\ UNCHANGED aistudio

(***************************************************************************)
(* Actions.                                                                *)
(***************************************************************************)
\* where runs may overlap (nsub counts there), the remote answers are drawn
\* from smaller sets
Answers1 ==
    IF nsub = 0 THEN Responses1
    ELSE {a \in Responses1 : Includes(a.text, "V1")}

Answers2 ==
    IF nsub = 0 THEN Responses2
    ELSE {a \in Responses2 : a.hasCandidates /\ Len(a.candidates[1].parts) = 2}

Rejections ==
    IF nsub = 0 THEN RemoteErrors ELSE {"Request failed with status 403"}

\* InputSection: isLoading disables the button; handleSubmit returns when
\* there is neither text nor image
IsLoading == status = ANALYZING \/ status = GENERATING_IMAGE

CanSubmit(input) == ~IsLoading /\ ~(input.text = "" /\ input.imageBase64 = Null)

\* the record of a run started now: the handler closes over the state of the
\* render it was created in
NewRun(input) ==
    [IdleRun EXCEPT !.input = input, !.clPromptData = promptData,
                    !.clLastParams = lastAnalysisParams, !.atSubmit = lastStage1]

\* the lowest slot, once the records of the finished runs are dropped
FreeSlot(r) ==
    /\ run[r].pc = "idle"
    /\ \A q \in Slots : q < r => InFlight(q)

\* a submission made when no earlier run is in flight
Submit(r, input) ==
    /\ CanSubmit(input)
    /\ \A q \in Slots : run[q].pc = "idle"
    /\ FreeSlot(r)
    /\ Commit(r, StartRun(Globals, NewRun(input)))
    /\ UNCHANGED nsub

\* the inputs of the sessions in which runs may overlap
OverlapInputs ==
    {i \in UserInputs : i.aspectRatio = "1:1" /\ i.text = "A" /\ i.imageBase64 = Null}

\* a submission whenever the button allows one
SubmitAnyTime(r, input) ==
    /\ CanSubmit(input)
    /\ input \in OverlapInputs
    /\ nsub < MaxRuns
    /\ FreeSlot(r)
    /\ Commit(r, StartRun(Globals, NewRun(input)))
    /\ nsub' = nsub + 1

\* a variant that opens the key selection whatever the check answers
HasKeyResolved_OpensAlways(r) ==
    /\ run[r].pc = "hasKey"
    /\ \E answer \in {"yes", "no", "rejected"} :
          LET l == [run[r] EXCEPT !.hasKeyAnswer = answer]
          IN Commit(r, [g |-> Globals,
                        l |-> [l EXCEPT !.pc = "openKey", !.gateOpens = @ + 1]])
    /\ UNCHANGED nsub

\* checkApiKey lines 21-27: hasSelectedApiKey() settles
HasKeyResolved(r) ==
    /\ run[r].pc = "hasKey"
    /\ \E answer \in {"yes", "no", "rejected"} :
          LET l == [run[r] EXCEPT !.hasKeyAnswer = answer]
          IN IF answer = "no"
             THEN Commit(r, [g |-> Globals,
                             l |-> [l EXCEPT !.pc = "openKey", !.gateOpens = @ + 1]])
             ELSE Commit(r, AfterKeyCheck(Globals, l))
    /\ UNCHANGED nsub

\* checkApiKey lines 23-30: openSelectKey() settles, either way
OpenKeyResolved(r) ==
    /\ run[r].pc = "openKey"
    /\ Commit(r, AfterKeyCheck(Globals, run[r]))
    /\ UNCHANGED nsub

Stage1Responds(r) ==
    /\ run[r].pc = "s1_call"
    /\ \/ \E resp \in Answers1 :
             Commit(r, Stage1CallReturned(Globals, [run[r] EXCEPT !.s1Response = resp],
                                          resp))
       \/ \E e \in Rejections :
             Commit(r, Stage1CallFailed(Globals, [run[r] EXCEPT !.lastRejection = e], e))
    /\ UNCHANGED nsub

\* the backoff timer of Stage 1 fires: the loop calls the model again
Stage1BackoffElapsed(r) ==
    /\ run[r].pc = "s1_wait"
    /\ Commit(r, [g |-> Globals,
                  l |-> [run[r] EXCEPT !.pc = "s1_call", !.s1Remote = @ + 1,
                                       !.lastRejection = ""]])
    /\ UNCHANGED nsub

Stage2Responds(r) ==
    /\ run[r].pc = "s2_call"
    /\ \/ \E resp \in Answers2 :
             Commit(r, Stage2CallReturned(Globals, [run[r] EXCEPT !.s2Response = resp],
                                          resp))
       \/ \E e \in Rejections :
             Commit(r, Stage2CallFailed(Globals, [run[r] EXCEPT !.lastRejection = e], e))
    /\ UNCHANGED nsub

Stage2BackoffElapsed(r) ==
    /\ run[r].pc = "s2_wait"
    /\ Commit(r, [g |-> Globals,
                  l |-> [run[r] EXCEPT !.pc = "s2_call", !.s2Remote = @ + 1,
                                       !.lastRejection = ""]])
    /\ UNCHANGED nsub

\* the first submission of a session
SubmitFirst(r, input) == status = IDLE /\ Submit(r, input)

\* Stage 1 answered with any response of the reasoning model, or rejected
Stage1RespondsAny(r) ==
    /\ run[r].pc = "s1_call"
    /\ \/ \E resp \in AllResponses1 :
             Commit(r, Stage1CallReturned(Globals, [run[r] EXCEPT !.s1Response = resp],
                                          resp))
       \/ \E e \in {"Network error"} :
             Commit(r, Stage1CallFailed(Globals, [run[r] EXCEPT !.lastRejection = e], e))
    /\ UNCHANGED nsub

\* Stage 2 answered with any response of the image model, or rejected
Stage2RespondsAny(r) ==
    /\ run[r].pc = "s2_call"
    /\ \/ \E resp \in AllResponses2 :
             Commit(r, Stage2CallReturned(Globals, [run[r] EXCEPT !.s2Response = resp],
                                          resp))
       \/ \E e \in {"Network error"} :
             Commit(r, Stage2CallFailed(Globals, [run[r] EXCEPT !.lastRejection = e], e))
    /\ UNCHANGED nsub

\* the first submission of a session, of any text and image string
SubmitRequest(r, input) ==
    /\ status = IDLE
    /\ CanSubmit(input)
    /\ \A q \in Slots : run[q].pc = "idle"
    /\ FreeSlot(r)
    /\ Commit(r, StartRun(Globals, NewRun(input)))
    /\ UNCHANGED nsub

\* Stage 1 answered with a well-formed prompt, or rejected
Stage1RespondsPlain(r) ==
    /\ run[r].pc = "s1_call"
    /\ \/ \E resp \in {a \in Responses1 : Includes(a.text, "V1")} :
             Commit(r, Stage1CallReturned(Globals, [run[r] EXCEPT !.s1Response = resp],
                                          resp))
       \/ \E e \in {"Network error"} :
             Commit(r, Stage1CallFailed(Globals, [run[r] EXCEPT !.lastRejection = e], e))
    /\ UNCHANGED nsub

\* Stage 2 answered with an image, or rejected
Stage2RespondsPlain(r) ==
    /\ run[r].pc = "s2_call"
    /\ \/ \E resp \in {a \in Responses2 :
                          a.hasCandidates /\ Len(a.candidates[1].parts) = 2} :
             Commit(r, Stage2CallReturned(Globals, [run[r] EXCEPT !.s2Response = resp],
                                          resp))
       \/ \E e \in {"Network error"} :
             Commit(r, Stage2CallFailed(Globals, [run[r] EXCEPT !.lastRejection = e], e))
    /\ UNCHANGED nsub

\* line 89: openSelectKey() of the catch block settles; the handler returns
CatchOpenKeyResolved(r) ==
    /\ run[r].pc = "catchOpenKey"
    /\ Commit(r, [g |-> Globals, l |-> [run[r] EXCEPT !.pc = "done"]])
    /\ UNCHANGED nsub

\* the handler has returned: its locals are gone, and with them the record
\* kept of the run
RunDropped(r) ==
    /\ run[r].pc = "done"
    /\ run' = [run EXCEPT ![r] = IdleRun]
    /\ UNCHANGED <<status, promptData, resultImage, errorMsg, lastAnalysisParams,
                   aistudio, lastStage1, nsub>>

Step(r) ==
    \/ HasKeyResolved(r)
    \/ OpenKeyResolved(r)
    \/ Stage1Responds(r)
    \/ Stage1BackoffElapsed(r)
    \/ Stage2Responds(r)
    \/ Stage2BackoffElapsed(r)
    \/ CatchOpenKeyResolved(r)
    \/ RunDropped(r)

\* sessions whose runs do not overlap
Next == \E r \in Slots : (\E input \in UserInputs : Submit(r, input)) \/ Step(r)

Spec == Init /\ [][Next]_vars

\* sessions under the submit guard of the code alone
NextOverlap ==
    \E r \in Slots : (\E input \in UserInputs : SubmitAnyTime(r, input)) \/ Step(r)

SpecOverlap == Init /\ [][NextOverlap]_vars

\* every helper call and remote call settles, every backoff timer fires
\* one run of a session, over every response of the two models
NextResponses ==
    \E r \in Slots :
        \/ \E input \in UserInputs : SubmitFirst(r, input)
        \/ HasKeyResolved(r)
        \/ OpenKeyResolved(r)
        \/ Stage1RespondsAny(r)
        \/ Stage1BackoffElapsed(r)
        \/ Stage2RespondsAny(r)
        \/ Stage2BackoffElapsed(r)

SpecResponses == Init /\ [][NextResponses]_vars

\* one run of a session, over every text and image string
NextRequests ==
    \E r \in Slots :
        \/ \E input \in RequestInputs : SubmitRequest(r, input)
        \/ HasKeyResolved(r)
        \/ OpenKeyResolved(r)
        \/ Stage1RespondsPlain(r)
        \/ Stage1BackoffElapsed(r)
        \/ Stage2RespondsPlain(r)
        \/ Stage2BackoffElapsed(r)

SpecRequests == Init /\ [][NextRequests]_vars

SpecFair == Spec /\ \A r \in Slots : WF_vars(Step(r))

(***************************************************************************)
(* Properties.                                                             *)
(***************************************************************************)
\* the run has passed the decision of line 49
Decided(l) == l.pc \notin {"idle", "hasKey", "openKey"}

StatusesSet(l) == {l.statusLog[i] : i \in 1..Len(l.statusLog)}

\* C1: a run skips Stage 1 (makes no engineerPrompt call) only if, at its
\* submission, a structured prompt was cached, the submitted text and
\* imageBase64 equalled the last-analysis record, and forceAnalysis was not
\* set; in every other case the run calls engineerPrompt.
C1_SkipOnlyIfCachedSameUnforced ==
    \A r \in Slots :
        LET l == run[r]
            mayskip == /\ l.clPromptData # NullData
                       /\ l.clLastParams # NullData
                       /\ l.clLastParams.text = l.input.text
                       /\ l.clLastParams.imageBase64 = l.input.imageBase64
                       /\ ~l.input.forceAnalysis
        IN Decided(l) => /\ l.engCalls = 0 => mayskip
                         /\ ~mayskip => l.engCalls = 1

\* a run that skipped Stage 1 awaits the image model
C1_Witness ==
    \E r \in Slots : run[r].pc = "s2_call" /\ run[r].engCalls = 0

\* the submission repeats, unforced, the inputs of the latest engineerPrompt
\* call, which returned
RepeatsLastAnalysis(l) ==
    /\ l.atSubmit.k = "ok"
    /\ l.atSubmit.text = l.input.text
    /\ l.atSubmit.imageBase64 = l.input.imageBase64
    /\ ~l.input.forceAnalysis

\* no engineerPrompt call, status never Analyzing, one generatePosterImage
\* call, made with the cached prompt's visualPrompt
ReusesCachedPrompt(l) ==
    /\ l.engCalls = 0
    /\ ANALYZING \notin StatusesSet(l)
    /\ Len(l.genCalls) = 1
    /\ l.atSubmit.data.k = "obj" =>
          l.genCalls[1].visualPrompt = l.atSubmit.data.visualPrompt

Stage1InProgress(l) == l.engCalls = 1 /\ l.s1Outcome = "none"

\* generatePosterImage has been called and has neither returned nor thrown
Stage2InProgress(l) == Len(l.genCalls) >= 1 /\ l.s2Outcome = "none"

\* C3: in a run, the image model is called only after engineerPrompt of that
\* run has returned (when it was called at all), the two stages are never in
\* progress together, and generatePosterImage is not called in a run whose
\* Stage 1 failed.
C3_Stage2AfterStage1 ==
    \A r \in Slots :
        LET l == run[r]
        IN /\ l.s2Remote >= 1 /\ l.engCalls >= 1 => l.s1Outcome = "ok"
           /\ ~(Stage1InProgress(l) /\ Stage2InProgress(l))
           /\ l.s1Outcome = "failed" => l.genCalls = <<>> /\ l.s2Remote = 0

\* Stage 1 ran and returned, and the run awaits the image model
C3_Witness ==
    \E r \in Slots :
        run[r].pc = "s2_call" /\ run[r].engCalls = 1 /\ run[r].s1Outcome = "ok"

\* a step in which run r calls engineerPrompt
CallsStage1(r) == run[r].engCalls = 0 /\ run'[r].engCalls = 1

\* a step in which run r, having skipped Stage 1, calls generatePosterImage
SkipsToStage2(r) ==
    run'[r].engCalls = 0 /\ Len(run[r].genCalls) = 0 /\ Len(run'[r].genCalls) = 1

StatusEdge ==
    \/ /\ status \in {IDLE, SUCCESS, ERROR} /\ status' = ANALYZING
       /\ \E r \in Slots : CallsStage1(r)
    \/ /\ status \in {SUCCESS, ERROR} /\ status' = GENERATING_IMAGE
       /\ \E r \in Slots : SkipsToStage2(r)
    \/ status = ANALYZING /\ status' \in {GENERATING_IMAGE, ERROR}
    \/ status = GENERATING_IMAGE /\ status' \in {SUCCESS, ERROR}

\* C4: with non-overlapping runs, status changes only along
\* {Idle, Success, Error} -> Analyzing (a submission that runs Stage 1),
\* {Success, Error} -> GeneratingImage (a submission that skips Stage 1),
\* Analyzing -> GeneratingImage | Error, GeneratingImage -> Success | Error.
C4_StatusEdges == [][status' # status => StatusEdge]_vars

\* a run that went Analyzing, GeneratingImage, Error
C4_Witness ==
    \E r \in Slots :
        /\ run[r].statusLog = <<ANALYZING, GENERATING_IMAGE, ERROR>>
        /\ status = ERROR

\* the run has reached neither Success nor Error
Unfinished(l) ==
    l.pc \in {"hasKey", "openKey", "s1_call", "s1_wait", "s2_call", "s2_wait"}

\* C5: under the submit guard of InputSection, at most one run at a time has
\* not yet reached Success or Error: no submission starts while an earlier run
\* is unfinished, the wait for the API-key check included.
C5_OneRunAtATime == Cardinality({r \in Slots : Unfinished(run[r])}) <= 1

\* the remote calls of a run stay within three per stage
WithinCallBudget(l) ==
    /\ l.s1Remote <= 3
    /\ l.s2Remote <= 3
    /\ l.engCalls = 0 => l.s1Remote + l.s2Remote <= 3

\* C6: if every helper call and every remote call settles, every submitted
\* run ends, with status Success or Error, after at most 3 remote calls in
\* Stage 1 and at most 3 in Stage 2 (at most 3 in all when Stage 1 is skipped).
C6_RunsEnd ==
    /\ \A r \in Slots :
          InFlight(r) ~> (run[r].pc = "done" /\ status \in {SUCCESS, ERROR})
    /\ [](\A r \in Slots : WithinCallBudget(run[r]))

\* a run that ended after three remote calls in each stage
C6_Witness ==
    \E r \in Slots :
        /\ run[r].pc = "done"
        /\ run[r].s1Remote = 3
        /\ run[r].s2Remote = 3
        /\ status \in {SUCCESS, ERROR}

\* C7: in each stage, when the remote call fails on the first k attempts
\* (k = 0, 1 or 2) and then answers, it has been made exactly k + 1 times, no
\* further call of the stage follows, and the stage goes on with that answer:
\* Stage 1 hands the orchestrator the prompt extracted from it, Stage 2 the
\* image found in it.
C7_AnswerEndsTheLoop ==
    \A r \in Slots :
        LET l == run[r]
        IN /\ l.s1Response # NoResponse =>
                /\ l.s1Fails \in 0..2
                /\ l.s1Remote = l.s1Fails + 1
                /\ l.s1Outcome = IF Stage1Outcome[l.s1Response].ok THEN "ok" ELSE "failed"
                /\ l.s1Outcome = "ok" =>
                      /\ l.currentPromptData = Stage1Outcome[l.s1Response].val
                      /\ promptData = Stage1Outcome[l.s1Response].val
           /\ l.s2Response # NoResponse =>
                /\ l.s2Fails \in 0..2
                /\ l.s2Remote = l.s2Fails + 1
                /\ l.s2Outcome = IF Stage2Outcome[l.s2Response].ok THEN "ok" ELSE "failed"
                /\ l.s2Outcome = "ok" =>
                      /\ resultImage = Stage2Outcome[l.s2Response].val
                      /\ status = SUCCESS

\* both stages failed twice and answered on the third call, and the run
\* succeeded
C7_Witness ==
    \E r \in Slots :
        /\ run[r].pc = "done"
        /\ run[r].s1Fails = 2 /\ run[r].s1Remote = 3 /\ run[r].s1Outcome = "ok"
        /\ run[r].s2Fails = 2 /\ run[r].s2Remote = 3 /\ run[r].s2Outcome = "ok"
        /\ run[r].waits = <<1000, 2000, 2000, 4000>>

\* the stage failed without any answer from the model
Stage1Exhausted(l) == l.s1Outcome = "failed" /\ l.s1Response = NoResponse
Stage2Exhausted(l) == l.s2Outcome = "failed" /\ l.s2Response = NoResponse

\* C8: when the remote call of a stage fails on every attempt it is made
\* exactly 3 times, and the catch block of the orchestrator receives the
\* error of the third attempt, its message unchanged.
C8_LastErrorUnchanged ==
    \A r \in Slots :
        LET l == run[r]
        IN /\ Stage1Exhausted(l) =>
                /\ l.s1Remote = 3 /\ l.s1Fails = 3
                /\ l.caught /\ l.errMessage = l.lastRejection
           /\ Stage2Exhausted(l) =>
                /\ l.s2Remote = 3 /\ l.s2Fails = 3
                /\ l.caught /\ l.errMessage = l.lastRejection

\* a stage gave up on a third failure whose message differs from the first two
\* failures' (which a fresh call wiped from the record)
C8_Witness ==
    \E r \in Slots :
        /\ Stage1Exhausted(run[r]) \/ Stage2Exhausted(run[r])
        /\ run[r].pc = "done"
        /\ run[r].errMessage = "Network error"
        /\ errorMsg = "Network error"

\* the run ended in the catch block, with an error thrown by a stage
StageErrorCaught(l) ==
    /\ l.caught
    /\ l.pc \in {"catchOpenKey", "done"}
    /\ l.s1Outcome = "failed" \/ l.s2Outcome = "failed"

\* C9: for every stage error whose message contains "403", with or without
\* the key-selection helper, the run ends with status Error and errorMsg is
\* exactly "Permission Denied. Please select a valid paid API key.".
C9_PermissionDeniedShown ==
    \A r \in Slots :
        StageErrorCaught(run[r]) /\ Includes(run[r].errMessage, "403") =>
            status = ERROR /\ errorMsg = PermissionDeniedMsg

\* the stage error's message contains "403" or "permission"
PermissionFailure(l) ==
    Includes(l.errMessage, "403") \/ Includes(l.errMessage, "permission")

\* C10 as stated: a stage error whose message contains "403" or "permission"
\* makes the catch block call openSelectKey exactly once, after status is set
\* to Error; any other stage error makes it call openSelectKey not at all.
C10_Original ==
    \A r \in Slots :
        LET l == run[r]
        IN StageErrorCaught(l) =>
              /\ PermissionFailure(l) => l.catchOpens = 1 /\ ERROR \in StatusesSet(l)
              /\ ~PermissionFailure(l) => l.catchOpens = 0

\* C10, amended: the same where window.aistudio.openSelectKey exists; where it
\* does not, the catch block calls no key selection for any error.
C10_ReselectsKeyOnce ==
    \A r \in Slots :
        LET l == run[r]
        IN StageErrorCaught(l) =>
              /\ PermissionFailure(l) /\ aistudio = "present" =>
                    /\ l.catchOpens = 1
                    /\ ERROR \in StatusesSet(l)
                    /\ l.pc = "catchOpenKey" => status = ERROR
              /\ ~PermissionFailure(l) \/ aistudio = "absent" => l.catchOpens = 0

\* the catch block awaits openSelectKey after a failure whose message has
\* "permission" in it and no "403"
C10_Witness ==
    \E r \in Slots :
        /\ run[r].pc = "catchOpenKey"
        /\ run[r].errMessage = "The caller does not have permission"
        /\ run[r].catchOpens = 1
        /\ status = ERROR


\* the run has returned from the catch block, entered with a stage's error
\* whose message contains neither "403" nor "permission"
OtherStageError(l) ==
    StageErrorCaught(l) /\ l.pc = "done" /\ ~PermissionFailure(l)

\* C11 as stated: for every error thrown by a stage whose message contains
\* neither "403" nor "permission", the empty message included, the run ends
\* with status Error and errorMsg equal to the message.
C11_Original ==
    \A r \in Slots :
        OtherStageError(run[r]) => status = ERROR /\ errorMsg = run[r].errMessage

\* C11, amended: the same for every such message that is not empty; for an
\* error without message errorMsg is "An unexpected error occurred.".
C11_MessageVerbatim ==
    \A r \in Slots :
        OtherStageError(run[r]) =>
            /\ status = ERROR
            /\ run[r].errMessage # "" => errorMsg = run[r].errMessage
            /\ run[r].errMessage = "" => errorMsg = UnexpectedMsg

\* Stage 2 threw "No image data found" and the user sees it
C11_Witness ==
    \E r \in Slots :
        /\ OtherStageError(run[r])
        /\ run[r].errMessage = NoImageDataMsg
        /\ errorMsg = NoImageDataMsg


\* the run ended after Stage 1 returned and Stage 2 failed
Stage2FailedAfterStage1(l) ==
    l.pc = "done" /\ l.s1Outcome = "ok" /\ l.s2Outcome = "failed"

\* input repeats the text and image of run l and does not force the analysis
RepeatsRun(input, l) ==
    /\ input.text = l.input.text
    /\ input.imageBase64 = l.input.imageBase64
    /\ ~input.forceAnalysis

\* C12: when Stage 1 succeeded and Stage 2 of the same run failed, the run
\* ends in Error with the structured prompt and the last-analysis record of
\* its Stage 1 still held, and an identical unforced submission made then
\* goes straight to Stage 2: no engineerPrompt call, one generatePosterImage
\* call with the cached prompt's visualPrompt.
C12_Stage1DataKept ==
    \A r \in Slots :
        LET l == run[r]
        IN Stage2FailedAfterStage1(l) =>
              /\ status = ERROR
              /\ promptData = Stage1Outcome[l.s1Response].val
              /\ lastAnalysisParams = [k |-> "params", text |-> l.input.text,
                                       imageBase64 |-> l.input.imageBase64]
              /\ \A input \in UserInputs :
                    RepeatsRun(input, l) =>
                        LET next == AfterKeyCheck(Globals, NewRun(input))
                        IN /\ next.l.engCalls = 0
                           /\ next.l.pc = "s2_call"
                           /\ next.g.status = GENERATING_IMAGE
                           /\ Len(next.l.genCalls) = 1
                           /\ next.l.genCalls[1].visualPrompt = l.genCalls[1].visualPrompt
                           /\ next.g.promptData = promptData

\* Stage 1 answered, all three calls of Stage 2 were rejected, and the run
\* is over
C12_Witness ==
    \E r \in Slots :
        /\ Stage2FailedAfterStage1(run[r])
        /\ Stage2Exhausted(run[r])
        /\ run[r].genCalls[1].visualPrompt = "V1"
        /\ promptData # NullData


\* Stage 1 of the run has returned, or the run has skipped it
Stage1Passed(l) == l.s1Outcome = "ok" \/ (Decided(l) /\ l.engCalls = 0)

\* the structured prompt current in the run: the one its Stage 1 returned, or
\* the cached one when Stage 1 was skipped
CurrentPrompt(l) ==
    IF l.engCalls = 0 THEN l.clPromptData ELSE Stage1Outcome[l.s1Response].val

\* generatePosterImage was called once, with the current prompt's
\* visualPrompt and the settings and image of this submission
OneStage2Call(l) ==
    /\ Len(l.genCalls) = 1
    /\ l.genCalls[1] =
          [visualPrompt |-> IF CurrentPrompt(l).k = "obj"
                            THEN CurrentPrompt(l).visualPrompt ELSE Undefined,
           aspectRatio |-> l.input.aspectRatio,
           imageSize |-> l.input.imageSize,
           referenceImageBase64 |-> l.input.imageBase64]

AtKeyGate(l) == l.pc \in {"hasKey", "openKey"}

\* neither stage has been called in the run
NoStageCalled(l) == l.engCalls = 0 /\ l.genCalls = <<>>

\* the key gate as the run's record shows it
KeyGateRecord(l) ==
    /\ l.gateOpens = IF l.hasKeyAnswer = "no" THEN 1 ELSE 0
    /\ AtKeyGate(l) => NoStageCalled(l)
    /\ l.pc = "hasKey" => l.hasKeyAnswer = "none"
    /\ l.pc = "openKey" => l.hasKeyAnswer = "no"
    /\ Decided(l) => /\ (aistudio = "present") <=> (l.hasKeyAnswer # "none")
                     /\ l.engCalls = 1 \/ Len(l.genCalls) = 1

\* a step of run r out of a wait of checkApiKey: to the key selection, when
\* the check has answered that no key is selected, or to a stage's first call
LeavesKeyGate(r) ==
    \/ /\ run[r].pc = "hasKey" /\ run'[r].pc = "openKey"
       /\ run'[r].hasKeyAnswer = "no"
    \/ /\ run'[r].pc = "s1_call" /\ run'[r].engCalls = 1
       /\ run'[r].hasKeyAnswer \in {"yes", "rejected", "no"}
    \/ /\ run'[r].pc = "s2_call" /\ Len(run'[r].genCalls) = 1
       /\ run'[r].hasKeyAnswer \in {"yes", "rejected", "no"}

\* C14: every run starts with the API-key check (where the helper exists),
\* before any stage is called; openSelectKey is called there exactly when
\* the check answered that no key is selected; and whatever the check and the
\* selection answer, resolved or rejected, or without the helper at all, the
\* run goes on to Stage 1 or Stage 2.
C14_KeyGateNeverBlocks ==
    /\ [](\A r \in Slots : KeyGateRecord(run[r]))
    /\ [][\A r \in Slots :
            AtKeyGate(run[r]) /\ run'[r].pc # run[r].pc => LeavesKeyGate(r)]_vars
    /\ \A r \in Slots : AtKeyGate(run[r]) ~> Decided(run[r])

\* the check was rejected and the run, which skipped Stage 1, awaits the
\* image model
C14_Witness ==
    \E r \in Slots :
        /\ run[r].hasKeyAnswer = "rejected"
        /\ run[r].gateOpens = 0
        /\ run[r].pc = "s2_call"
        /\ run[r].engCalls = 0


\* a JavaScript value that is a string with at least one character
NonEmptyString(v) == v \notin {Undefined, Null, ""} /\ ~Includes(v, "<number ")

\* C15: whenever the orchestrator calls generatePosterImage, the visualPrompt
\* it passes is a non-empty string, whatever JSON value Stage 1 parsed.
C15_VisualPromptNonEmpty ==
    \A r \in Slots :
        \A i \in 1..Len(run[r].genCalls) : NonEmptyString(run[r].genCalls[i].visualPrompt)


\* the image model's response has a first candidate with content parts
HasContentParts(resp) ==
    /\ resp.hasCandidates
    /\ Len(resp.candidates) > 0
    /\ resp.candidates[1].hasContent
    /\ resp.candidates[1].hasParts

\* C16: of a response with content parts, generatePosterImage returns the
\* data URL of the first part, in response order, that carries inline data,
\* built from that part's MIME type and payload; when no part carries inline
\* data it throws "No image data found", and the run ends in Error with that
\* message and no result image.
C16_FirstInlinePart ==
    \A r \in Slots :
        LET l == run[r]
            parts == l.s2Response.candidates[1].parts
        IN l.s2Response # NoResponse /\ HasContentParts(l.s2Response) =>
              IF \E i \in 1..Len(parts) : parts[i].hasInline
              THEN /\ l.s2Outcome = "ok"
                   /\ status = SUCCESS
                   /\ \E i \in 1..Len(parts) :
                         /\ parts[i].hasInline
                         /\ \A j \in 1..(i - 1) : ~parts[j].hasInline
                         /\ resultImage =
                               "data:" \o parts[i].mimeType \o ";base64," \o parts[i].data
              ELSE /\ l.s2Outcome = "failed"
                   /\ l.caught /\ l.errMessage = NoImageDataMsg
                   /\ status = ERROR
                   /\ errorMsg = NoImageDataMsg
                   /\ resultImage = Null

\* of a text part, a JPEG and a PNG, the JPEG is the result
C16_Witness ==
    \E r \in Slots :
        /\ run[r].s2Response # NoResponse
        /\ HasContentParts(run[r].s2Response)
        /\ run[r].s2Response.candidates[1].parts = <<TextPart, JpegPart, PngPart>>
        /\ resultImage = "data:image/jpeg;base64,SlBH"


\* C17: when the image response has no candidate output (candidates absent
\* or an empty list) or its first candidate has no content parts (content or
\* content.parts absent), generatePosterImage throws "No image generated"
\* and the run ends in Error with that message.
C17_NoImageGenerated ==
    \A r \in Slots :
        LET l == run[r]
        IN l.s2Response # NoResponse /\ ~HasContentParts(l.s2Response) =>
              /\ l.s2Outcome = "failed"
              /\ l.caught /\ l.errMessage = NoImageGeneratedMsg
              /\ status = ERROR
              /\ errorMsg = NoImageGeneratedMsg


\* Stage 1 got a response without text
NoTextAnswer(l) == l.s1Response # NoResponse /\ l.s1Response.text = ""

\* engineerPrompt threw the empty-response error before any extraction, and
\* Stage 2 was not called
FailsEmptyResponse(l) ==
    /\ l.s1Outcome = "failed"
    /\ l.caught /\ l.errMessage = EmptyResponseMsg
    /\ ~ReachesExtraction(l.s1Response)
    /\ l.genCalls = <<>> /\ l.s2Remote = 0

\* C18 as stated: whenever the Stage-1 response has no text, engineerPrompt
\* throws the empty-response error, attempts no JSON extraction, and Stage 2
\* is not called.
C18_Original ==
    \A r \in Slots : NoTextAnswer(run[r]) => FailsEmptyResponse(run[r])

\* C18, amended: the same unless the response has a first candidate whose
\* finish reason is neither STOP nor MAX_TOKENS; then engineerPrompt throws
\* "AI generation stopped: <reason>" instead, again without extraction and
\* without Stage 2.
C18_EmptyResponse ==
    \A r \in Slots :
        LET l == run[r]
            c == l.s1Response.candidates
        IN NoTextAnswer(l) =>
              IF c = <<>> \/ c[1].finishReason \in {"STOP", "MAX_TOKENS"}
              THEN FailsEmptyResponse(l)
              ELSE /\ l.s1Outcome = "failed"
                   /\ l.caught /\ l.errMessage # EmptyResponseMsg
                   /\ Includes(l.errMessage, "AI generation stopped: ")
                   /\ ~ReachesExtraction(l.s1Response)
                   /\ l.genCalls = <<>> /\ l.s2Remote = 0

\* a response cut at the token limit, without text
C18_Witness ==
    \E r \in Slots :
        /\ NoTextAnswer(run[r])
        /\ run[r].s1Response.candidates # <<>>
        /\ run[r].s1Response.candidates[1].finishReason = "MAX_TOKENS"
        /\ errorMsg = EmptyResponseMsg
        /\ status = ERROR


\* the response has a first candidate whose finish reason is neither STOP
\* nor MAX_TOKENS
AbnormalFinish(resp) ==
    /\ resp.candidates # <<>>
    /\ resp.candidates[1].finishReason # "STOP"
    /\ resp.candidates[1].finishReason # "MAX_TOKENS"

\* the run's Stage 1 threw the generation-stopped error
ThrewGenerationStopped(l) ==
    /\ l.s1Outcome = "failed"
    /\ l.caught
    /\ SubSeq(l.errMessage, 1, 23) = "AI generation stopped: "

\* C19: engineerPrompt throws "AI generation stopped: <reason>", with the
\* first candidate's finish reason, exactly when that reason is neither STOP
\* nor MAX_TOKENS and the response has no text; with such a reason and text,
\* it goes on to the JSON extraction and returns what the text parses to.
C19_GenerationStopped ==
    \A r \in Slots :
        LET l == run[r]
            resp == l.s1Response
        IN resp # NoResponse =>
              /\ ThrewGenerationStopped(l) <=> (AbnormalFinish(resp) /\ resp.text = "")
              /\ ThrewGenerationStopped(l) =>
                    SubSeq(l.errMessage, 24, Len(l.errMessage)) =
                        IF resp.candidates[1].finishReason = Undefined
                        THEN "undefined" ELSE resp.candidates[1].finishReason
              /\ AbnormalFinish(resp) /\ resp.text # "" =>
                    /\ ReachesExtraction(resp)
                    /\ JSONParse(ExtractJson(resp.text)).ok => l.s1Outcome = "ok"

\* a response that finished with SAFETY and carries a prompt in prose: Stage 1
\* returned it
C19_Witness ==
    \E r \in Slots :
        /\ run[r].s1Response # NoResponse
        /\ AbnormalFinish(run[r].s1Response)
        /\ run[r].s1Response.text # ""
        /\ run[r].s1Outcome = "ok"
        /\ run[r].currentPromptData.k = "obj"
        /\ run[r].currentPromptData.visualPrompt = "Z"


\* the run's Stage 1 returned a structured prompt with the three fields of j
ReturnedFieldsOf(l, j) ==
    /\ l.s1Outcome = "ok"
    /\ l.currentPromptData.k = "obj"
    /\ l.currentPromptData.posterTitle = j.posterTitle
    /\ l.currentPromptData.posterSubtitle = j.posterSubtitle
    /\ l.currentPromptData.visualPrompt = j.visualPrompt

\* C20: for every response text prefix + J + suffix, J a JSON object with
\* posterTitle, posterSubtitle and visualPrompt, the prefix without '{' and
\* the suffix without '}', engineerPrompt returns a structured prompt whose
\* three fields are those of J.
C20_ProseAroundJson ==
    \A r \in Slots :
        \A p \in Prefixes, j \in PromptObjects, s \in Suffixes :
            /\ ~Includes(p, "{") /\ ~Includes(s, "}")
            /\ run[r].s1Response # NoResponse /\ run[r].s1Response.text = p \o j.text \o s
                  => ReturnedFieldsOf(run[r], j)

\* the prompt was read out of "Here is the result: {...} Thanks!"
C20_Witness ==
    \E r \in Slots :
        /\ run[r].s1Response # NoResponse
        /\ run[r].s1Response.text =
              "Here is the result: {\"posterTitle\":\"X\",\"posterSubtitle\":\"Y\",\"visualPrompt\":\"Z\"} Thanks!"
        /\ run[r].s1Outcome = "ok"
        /\ promptData.k = "obj"
        /\ promptData.posterTitle = "X"
        /\ promptData.posterSubtitle = "Y"
        /\ promptData.visualPrompt = "Z"


\* the text of the run's Stage-1 response went to the extraction, and what
\* was extracted from it is no JSON
ExtractFailsToParse(l) ==
    /\ l.s1Response # NoResponse
    /\ ReachesExtraction(l.s1Response)
    /\ ~JSONParse(ExtractJson(l.s1Response.text)).ok

\* C21: when the substring extracted from the Stage-1 response text does
\* not parse as JSON, engineerPrompt throws "Failed to parse generated
\* prompt.", Stage 2 is not called, and the errorMsg shown is that fixed
\* text, without the raw response text in it.
C21_MalformedOutput ==
    \A r \in Slots :
        LET l == run[r]
        IN ExtractFailsToParse(l) =>
              /\ l.s1Outcome = "failed"
              /\ l.caught /\ l.errMessage = "Failed to parse generated prompt."
              /\ l.genCalls = <<>> /\ l.s2Remote = 0
              /\ status = ERROR
              /\ errorMsg = "Failed to parse generated prompt."
              /\ ~Includes(errorMsg, l.s1Response.text)

\* a text with an opening brace and no closing brace after it
C21_Witness ==
    \E r \in Slots :
        /\ ExtractFailsToParse(run[r])
        /\ run[r].s1Response.text = "x } {\"a\":1"
        /\ ExtractJson(run[r].s1Response.text) = " "
        /\ errorMsg = MalformedOutputMsg


\* s reads data:<mimeType>;base64,<payload> with a mimeType and a payload of
\* at least one character each
DataUrlForm(s) ==
    /\ Len(s) >= 15
    /\ SubSeq(s, 1, 5) = "data:"
    /\ \E i \in 7..(Len(s) - 8) : SubSeq(s, i, i + 7) = ";base64,"

\* C22: for every string of the form data:<mimeType>;base64,<payload> with
\* non-empty mimeType and payload, what the stages decode from it and
\* encode again is the string itself.
C22_RoundTrip ==
    \A r \in Slots :
        LET l == run[r]
            \* the inline part a stage sends ahead of its text part, encoded again
            ReEncoded(parts) == EncodeDataUrl(parts[1].mimeType, parts[1].data)
        IN l.input.imageBase64 # Null /\ DataUrlForm(l.input.imageBase64) =>
              /\ Len(l.s1Parts) = 2 => ReEncoded(l.s1Parts) = l.input.imageBase64
              /\ Len(l.s2Parts) = 2 => ReEncoded(l.s2Parts) = l.input.imageBase64


\* C23: for every non-empty image string that is not of the form
\* data:<mime>;base64,<payload>, the stages decode the MIME type
\* "image/jpeg" and, as payload, everything after the first comma.
C23_FallbackDecode ==
    \A r \in Slots :
        LET l == run[r]
            s == l.input.imageBase64
            \* everything after the first comma of s
            AfterFirstComma == SubSeq(s, IndexOf(s, ",") + 2, Len(s))
        IN Len(l.s1Parts) = 2 /\ ~DataUrlForm(s) =>
              /\ l.s1Parts[1].mimeType = "image/jpeg"
              /\ Includes(s, ",") => l.s1Parts[1].data = AfterFirstComma


UpperOf(c) ==
    IF \E i \in 1..26 : SubSeq(LowerCase, i, i) = c
    THEN LET i == CHOOSE j \in 1..26 : SubSeq(LowerCase, j, j) = c
         IN SubSeq(UpperCase, i, i)
    ELSE c

\* kw occurs in t, each of its letters in either case
OccursAnyCase(t, kw) ==
    \E i \in 0..(Len(t) - Len(kw)) :
        \A j \in 1..Len(kw) :
            SubSeq(t, i + j, i + j) \in {SubSeq(kw, j, j), UpperOf(SubSeq(kw, j, j))}

HasLiveDataKeyword(t) ==
    \E kw \in {"stock", "price", "weather", "news", "score"} : OccursAnyCase(t, kw)

\* the text part of the Stage-1 request
TextPartOf(parts) == parts[Len(parts)].text

\* C24: the text engineerPrompt sends carries the rewritten live-search
\* instruction if and only if the input text contains one of the keywords
\* stock, price, weather, news, score in any case; without a keyword, and
\* for an empty text, the user text is passed through unchanged.
C24_LiveSearchRewrite ==
    \A r \in Slots :
        LET l == run[r]
            t == l.input.text
        IN l.s1Parts # <<>> =>
              /\ Includes(TextPartOf(l.s1Parts), "USE GOOGLE SEARCH") <=> HasLiveDataKeyword(t)
              /\ HasLiveDataKeyword(t) =>
                    Includes(TextPartOf(l.s1Parts),
                             "1. User Input Text: \"User Query: \"" \o t
                             \o "\". \nINSTRUCTION: USE GOOGLE SEARCH to find the current live data value.\" (If")
              /\ ~HasLiveDataKeyword(t) =>
                    Includes(TextPartOf(l.s1Parts), "1. User Input Text: \"" \o t \o "\" (If")

\* a request sent for a text with a keyword in another case than the list's
C24_Witness ==
    \E r \in Slots : /\ run[r].s1Parts # <<>>
                      /\ run[r].s1Remote >= 1
                      /\ run[r].input.text = "STOCK tips"
                      /\ Includes(TextPartOf(run[r].s1Parts), "USE GOOGLE SEARCH")


\* the {title, uri} of the chunks with a web reference, in the chunks' order
WebReferences(chunks) ==
    LET web == SelectSeq(chunks, LAMBDA c : c.hasWeb)
    IN [i \in 1..Len(web) |-> [title |-> web[i].title, uri |-> web[i].uri]]

\* the run's Stage 1 returned a parsed object
ReturnedObject(l) ==
    /\ l.s1Response # NoResponse
    /\ l.s1Outcome = "ok"
    /\ l.currentPromptData.k = "obj"

\* C25: when the Stage-1 response carries grounding chunks, the returned
\* groundingSources is the list of {title, uri} of the chunks with a web
\* reference, in the chunks' order, the others dropped (possibly the empty
\* list); when the response carries no grounding metadata, no
\* groundingSources is attached.
C25_GroundingSources ==
    \A r \in Slots :
        LET l == run[r]
            resp == l.s1Response
        IN ReturnedObject(l) =>
              IF Len(resp.candidates) > 0 /\ resp.candidates[1].hasChunks
              THEN /\ l.currentPromptData.hasSources
                   /\ l.currentPromptData.groundingSources
                        = WebReferences(resp.candidates[1].chunks)
              ELSE ~l.currentPromptData.hasSources

\* three chunks, the middle one without a web reference
C25_Witness ==
    \E r \in Slots :
        /\ ReturnedObject(run[r])
        /\ Len(run[r].s1Response.candidates) > 0
        /\ Len(run[r].s1Response.candidates[1].chunks) = 3
        /\ run[r].currentPromptData.groundingSources
             = <<[title |-> "t2", uri |-> "u2"], [title |-> "t1", uri |-> "u1"]>>


\* C26: in every structured prompt engineerPrompt returns, groundingSources,
\* if present, holds no two entries with the same (title, uri) pair,
\* whatever list of grounding chunks the response carried.
C26_DistinctSources ==
    \A r \in Slots :
        LET l == run[r]
            srcs == l.currentPromptData.groundingSources
        IN ReturnedObject(l) /\ l.currentPromptData.hasSources =>
              \A i, j \in 1..Len(srcs) : srcs[i] = srcs[j] => i = j


\* C27: in each retry loop the k-th failed attempt (k = 1, 2) is followed by
\* a wait of base x k milliseconds before attempt k + 1, base 1000 in Stage 1
\* and 2000 in Stage 2; a successful attempt and the third failed attempt
\* are followed by no wait.
C27_LinearBackoff ==
    \A r \in Slots :
        LET l == run[r]
            \* the waits of a loop of the given base after so many failures
            LinearWaits(base, fails) ==
                [k \in 1..(IF fails < 2 THEN fails ELSE 2) |-> base * k]
        IN /\ l.waits = LinearWaits(1000, l.s1Fails) \o LinearWaits(2000, l.s2Fails)
           /\ l.pc = "s1_wait" => /\ l.s1Fails \in {1, 2}
                                  /\ l.s1Remote = l.s1Fails
                                  /\ l.waits[Len(l.waits)] = 1000 * l.s1Fails
           /\ l.pc = "s2_wait" => /\ l.s2Fails \in {1, 2}
                                  /\ l.s2Remote = l.s2Fails
                                  /\ l.waits[Len(l.waits)] = 2000 * l.s2Fails
           /\ l.pc = "s1_call" => l.s1Remote = l.s1Fails + 1
           /\ l.pc = "s2_call" => l.s2Remote = l.s2Fails + 1
           /\ l.s1Fails <= 3 /\ l.s2Fails <= 3

\* a run that waited 1000 and 2000 in Stage 1, then 2000 and 4000 in Stage 2,
\* and ended on the third failure of Stage 2
C27_Witness ==
    \E r \in Slots :
        /\ run[r].pc = "done"
        /\ run[r].s1Fails = 2 /\ run[r].s1Outcome = "ok"
        /\ run[r].s2Fails = 3
        /\ run[r].waits = <<1000, 2000, 2000, 4000>>


\* C28: with non-overlapping runs, at every suspension point and whenever no
\* run is in flight: status Success implies resultImage set and errorMsg
\* empty; status Error implies errorMsg set and resultImage empty; status
\* Analyzing or GeneratingImage implies both empty.
C28_StatusAgreesWithOutputs ==
    /\ status = SUCCESS => resultImage \notin {Null, ""} /\ errorMsg = Null
    /\ status = ERROR => errorMsg \notin {Null, ""} /\ resultImage = Null
    /\ status \in {ANALYZING, GENERATING_IMAGE} => resultImage = Null /\ errorMsg = Null

\* a second run in its image stage, the outputs of the first run cleared
C28_Witness ==
    \E r \in Slots :
        /\ run[r].pc = "s2_call"
        /\ status = GENERATING_IMAGE
        /\ run[r].atSubmit.k = "ok"
        /\ resultImage = Null /\ errorMsg = Null


\* the run was submitted after a run whose Stage 1 failed
FollowsFailedStage1(l) == Decided(l) /\ l.atSubmit.k = "failed"

\* C29: after a run whose Stage 1 failed no structured prompt is cached (it
\* was cleared when that Stage 1 started), so the next submission runs
\* Stage 1 again, even with text and imageBase64 equal to the last-analysis
\* record of an earlier successful analysis and forceAnalysis not set.
C29_ReanalysesAfterFailure ==
    /\ (lastStage1.k = "failed" /\ \A q \in Slots : run[q].pc \in {"idle", "done"})
          => promptData = NullData
    /\ \A r \in Slots :
          LET l == run[r]
          IN FollowsFailedStage1(l) =>
                /\ l.clPromptData = NullData
                /\ l.engCalls = 1
                /\ l.s1Remote >= 1

\* the inputs of the run equal the record an earlier analysis left, and
\* are not forced
C29_Witness ==
    \E r \in Slots :
        /\ FollowsFailedStage1(run[r])
        /\ run[r].clLastParams = [k |-> "params", text |-> run[r].input.text,
                                   imageBase64 |-> run[r].input.imageBase64]
        /\ ~run[r].input.forceAnalysis
        /\ run[r].engCalls = 1


\* the record of the inputs of run l
ParamsOf(l) ==
    [k |-> "params", text |-> l.input.text, imageBase64 |-> l.input.imageBase64]

\* the cached prompt is the one the last successful engineerPrompt call
\* produced, and the record holds the inputs of that call
RecordMatchesCachedPrompt ==
    promptData # NullData =>
        /\ lastStage1.k = "ok"
        /\ promptData = lastStage1.data
        /\ lastAnalysisParams = [k |-> "params", text |-> lastStage1.text,
                                  imageBase64 |-> lastStage1.imageBase64]

\* the record is written, and a prompt is cached, only where Stage 1 succeeds
\* and with that call's inputs and result; a skipped Stage 1 and the steps of
\* Stage 2 leave both as they are
WrittenOnStage1Success ==
    LET \* in this step Stage 1 of run r succeeds
        Stage1Succeeds(r) == run[r].pc = "s1_call" /\ run'[r].s1Outcome = "ok"
        \* in this step run r decides to skip Stage 1
        Stage1Skipped(r) ==
            ~Decided(run[r]) /\ Decided(run'[r]) /\ run'[r].engCalls = 0
        \* in this step run r is in its image stage
        Stage2Step(r) == run[r].pc \in {"s2_call", "s2_wait"}
    IN
    /\ (lastAnalysisParams' # lastAnalysisParams
         \/ (promptData' # promptData /\ promptData' # NullData))
          => \E r \in Slots :
                /\ Stage1Succeeds(r)
                /\ lastAnalysisParams' = ParamsOf(run[r])
                /\ promptData' = Stage1Outcome[run'[r].s1Response].val
    /\ \A r \in Slots :
          Stage1Skipped(r) \/ Stage2Step(r)
             => UNCHANGED <<promptData, lastAnalysisParams>>

\* C30: with non-overlapping runs, whenever a structured prompt is cached
\* the last-analysis record holds exactly the text and imageBase64 passed to
\* the engineerPrompt call that produced it; the record and the cached
\* prompt are written only on a Stage-1 success and are left unchanged by a
\* skipped Stage 1 and by any Stage-2 outcome.
C30_RecordMatchesPrompt ==
    /\ []RecordMatchesCachedPrompt
    /\ [][WrittenOnStage1Success]_vars

\* a run that skipped Stage 1 and failed in Stage 2, the prompt still cached
C30_Witness ==
    \E r \in Slots :
        /\ run[r].pc = "done"
        /\ run[r].engCalls = 0
        /\ run[r].s2Outcome = "failed"
        /\ promptData # NullData
        /\ lastAnalysisParams = ParamsOf(run[r])

=============================================================================
